---- MODULE Spec2Model ----
(***************************************************************************)
(* fix_project.py: a script that reads Flow.xcodeproj/project.pbxproj,     *)
(* applies five text edits and writes the file back.                       *)
(*                                                                         *)
(* The text is modelled as a sequence of tokens.  Every literal the script *)
(* searches for or inserts is one token (or a fixed sequence of tokens);   *)
(* the remaining text of a manifest is made of the tokens Other (text      *)
(* without a brace or a line break), NL (a line break), CloseBrace (a lone *)
(* closing brace) and Nested (a nested record "{ };").                     *)
(***************************************************************************)
EXTENDS Integers, Sequences, FiniteSets

\* ---------------------------------------------------------------- bounds
\* Longest arbitrary token text given to the script.
MaxLen == 3
\* How many times the script is run on the same file.
MaxRuns == 2

\* ---------------------------------------------------------------- literals
NL == "\n"
Other == "x"
CloseBrace == "}"
Nested == "{ };"

file_ref_id == "FACADE01FACADE01FACADE01"
build_file_id == "FACADE02FACADE02FACADE02"

BeginBuildFile == "/* Begin PBXBuildFile section */"
EndBuildFile == "/* End PBXBuildFile section */"
BeginFileRef == "/* Begin PBXFileReference section */"

\* build_file_entry without its trailing line break
BuildFileLine == "\t\tFACADE02FACADE02FACADE02 /* Assets.xcassets in Resources */ = {isa = PBXBuildFile; fileRef = FACADE01FACADE01FACADE01 /* Assets.xcassets */; };"
build_file_entry == <<BuildFileLine, NL>>

\* file_ref_entry in pieces: head, path field, tail, line break
FileRefHead == "\t\tFACADE01FACADE01FACADE01 /* Assets.xcassets */ = {isa = PBXFileReference; lastKnownFileType = folder.assetcatalog; "
OldPath == "path = Assets.xcassets;"
NewPath == "path = Flow/Assets.xcassets;"
FileRefTail == " sourceTree = \"<group>\"; };"
\* file_ref_entry written with the corrected path from the start.
file_ref_entry_new_path == <<FileRefHead, NewPath, FileRefTail, NL>>
file_ref_entry == <<FileRefHead, OldPath, FileRefTail, NL>>

resources_build_phase_id == "B6D369282F3F3C400090CDB7"
ResourcesHeader == "B6D369282F3F3C400090CDB7 /* Resources */ = {"
FilesOpen == "files = (\n"
ResourcesLine == "\t\t\t\tFACADE02FACADE02FACADE02 /* Assets.xcassets in Resources */,"

main_group_id == "B6D369212F3F3C400090CDB7"
GroupHeader == "B6D369212F3F3C400090CDB7 = {"
ChildrenOpen == "children = (\n"
GroupLine == "\t\t\t\tFACADE01FACADE01FACADE01 /* Assets.xcassets */,"

\* The tokens whose text contains the character "}" (what [^}] refuses).
HasCloseBrace(t) == t \in {CloseBrace, Nested, BuildFileLine, FileRefTail}

\* The number of line breaks in a token's text.
Newlines(t) == IF t \in {NL, FilesOpen, ChildrenOpen} THEN 1 ELSE 0

\* ---------------------------------------------------------------- str / re
\* marker in content
Contains(s, t) == \E i \in 1..Len(s) : s[i] = t

\* str.replace(old, new): every occurrence of the literal old becomes new.
RECURSIVE Replace(_, _, _)
Replace(s, old, new) ==
    IF s = <<>> THEN <<>>
    ELSE (IF Head(s) = old THEN new ELSE <<Head(s)>>)
         \o Replace(Tail(s), old, new)

\* Replace with count = 1: only the first occurrence.
RECURSIVE ReplaceFirst(_, _, _)
ReplaceFirst(s, old, new) ==
    IF s = <<>> THEN <<>>
    ELSE IF Head(s) = old THEN new \o Tail(s)
    ELSE <<Head(s)>> \o ReplaceFirst(Tail(s), old, new)

\* MatchEnd with a lazy [^}]*?: the match ends at the first opening.
MatchEndShortest(s, i, header, open) ==
    IF s[i] # header THEN 0
    ELSE LET ends == {j \in (i+1)..Len(s) :
                        /\ s[j] = open
                        /\ \A k \in (i+1)..(j-1) : ~HasCloseBrace(s[k])}
         IN IF ends = {} THEN 0
            ELSE CHOOSE j \in ends : \A k \in ends : j <= k

\* MatchEnd with .* for [^}]*: a "}" does not end the span.
MatchEndAnyChar(s, i, header, open) ==
    IF s[i] # header THEN 0
    ELSE LET ends == {j \in (i+1)..Len(s) : s[j] = open}
         IN IF ends = {} THEN 0
            ELSE CHOOSE j \in ends : \A k \in ends : k <= j

\* Where the match of  header [^}]* open  that starts at position i ends
\* (0: no match at i).  [^}]* is greedy: the regex engine gives back
\* characters from the longest brace-free run until open matches, so the
\* match ends at the last open token that no "}" separates from the header.
MatchEnd(s, i, header, open) ==
    IF s[i] # header THEN 0
    ELSE LET ends == {j \in (i+1)..Len(s) :
                        /\ s[j] = open
                        /\ \A k \in (i+1)..(j-1) : ~HasCloseBrace(s[k])}
         IN IF ends = {} THEN 0
            ELSE CHOOSE j \in ends : \A k \in ends : k <= j

\* pattern.sub(lambda m: m.group(0) + line, s), scanning from position i:
\* leftmost match first, then on from the end of that match.
RECURSIVE SubFrom(_, _, _, _, _)
SubFrom(s, i, header, open, line) ==
    IF i > Len(s) THEN <<>>
    ELSE LET e == MatchEnd(s, i, header, open)
         IN IF e > 0
            THEN SubSeq(s, i, e) \o line \o SubFrom(s, e + 1, header, open, line)
            ELSE <<s[i]>> \o SubFrom(s, i + 1, header, open, line)

\* ---------------------------------------------------------------- the five edits
\* AddBuildFile without the line break between the marker and the entry.
AddBuildFileNoBreak(c) ==
    IF Contains(c, BeginBuildFile)
    THEN Replace(c, BeginBuildFile, <<BeginBuildFile>> \o build_file_entry)
    ELSE Replace(c, BeginFileRef,
                 <<BeginBuildFile, NL>> \o build_file_entry
                 \o <<EndBuildFile, NL, NL, BeginFileRef>>)

\* AddBuildFile whose new section is never closed.
AddBuildFileNoEnd(c) ==
    IF Contains(c, BeginBuildFile)
    THEN Replace(c, BeginBuildFile, <<BeginBuildFile, NL>> \o build_file_entry)
    ELSE Replace(c, BeginFileRef,
                 <<BeginBuildFile, NL>> \o build_file_entry
                 \o <<NL, BeginFileRef>>)

\* AddBuildFile that appends a section when it finds no marker at all.
AddBuildFileAppend(c) ==
    IF Contains(c, BeginBuildFile)
    THEN Replace(c, BeginBuildFile, <<BeginBuildFile, NL>> \o build_file_entry)
    ELSE IF Contains(c, BeginFileRef)
    THEN Replace(c, BeginFileRef,
                 <<BeginBuildFile, NL>> \o build_file_entry
                 \o <<EndBuildFile, NL, NL, BeginFileRef>>)
    ELSE c \o <<BeginBuildFile, NL>> \o build_file_entry \o <<EndBuildFile, NL>>

\* 1. Add PBXBuildFile section if missing, or add to it
AddBuildFile(c) ==
    IF Contains(c, BeginBuildFile)
    THEN Replace(c, BeginBuildFile, <<BeginBuildFile, NL>> \o build_file_entry)
    ELSE Replace(c, BeginFileRef,
                 <<BeginBuildFile, NL>> \o build_file_entry
                 \o <<EndBuildFile, NL, NL, BeginFileRef>>)

\* AddFileRef that skips a file which has the entry already.
AddFileRefOnce(c) ==
    IF Contains(c, FileRefHead) THEN c
    ELSE Replace(c, BeginFileRef, <<BeginFileRef, NL>> \o file_ref_entry)

\* AddFileRef whose replacement text leaves out the marker.
AddFileRefDropMarker(c) == Replace(c, BeginFileRef, <<NL>> \o file_ref_entry)

\* 2. Add PBXFileReference
AddFileRef(c) ==
    Replace(c, BeginFileRef, <<BeginFileRef, NL>> \o file_ref_entry)

\* 3. Add to PBXResourcesBuildPhase
replace_files(c) ==
    SubFrom(c, 1, ResourcesHeader, FilesOpen, <<ResourcesLine, NL>>)

\* RewritePath that stops after the first occurrence.
RewritePathFirst(c) == ReplaceFirst(c, OldPath, <<NewPath>>)

\* correct the FileRef path
RewritePath(c) == Replace(c, OldPath, <<NewPath>>)

\* replace_group that returns the build phase's line.
replace_group_wrong_line(c) ==
    SubFrom(c, 1, GroupHeader, ChildrenOpen, <<ResourcesLine, NL>>)

\* 4. add to Main Group children
replace_group(c) ==
    SubFrom(c, 1, GroupHeader, ChildrenOpen, <<GroupLine, NL>>)

\* ---------------------------------------------------------------- inputs
Alphabet == {BeginBuildFile, BeginFileRef, OldPath, ResourcesHeader, FilesOpen,
             GroupHeader, ChildrenOpen, CloseBrace, Nested, NL, Other}

RECURSIVE Texts(_)
Texts(n) ==
    IF n = 0 THEN {<<>>}
    ELSE LET shorter == Texts(n - 1)
         IN shorter \cup {Append(s, t) : s \in shorter, t \in Alphabet}

\* Manifests of the shape Xcode writes: a build-file section, a
\* file-reference section, the resources build phase, the main group,
\* each present or not, empty or with entries.
BuildFileSections ==
    { <<>>,
      <<BeginBuildFile, NL, EndBuildFile, NL>>,
      <<BeginBuildFile, NL, Other, Nested, NL, EndBuildFile, NL>> }

FileRefSections ==
    { <<>>,
      <<BeginFileRef, NL, Other, NL>>,
      <<BeginFileRef, NL, Other, OldPath, Other, CloseBrace, Other, NL, Other, NL>> }

ResourcesPhases ==
    { <<>>,
      <<ResourcesHeader, NL, Other, NL, FilesOpen, Other, NL, CloseBrace, Other, NL>>,
      <<ResourcesHeader, NL, FilesOpen, Other, NL, Other, Nested, NL, Other, NL,
        CloseBrace, Other, NL>>,
      <<ResourcesHeader, NL, Other, Nested, NL, FilesOpen, Other, NL,
        CloseBrace, Other, NL>> }

MainGroups ==
    { <<>>,
      <<GroupHeader, NL, ChildrenOpen, Other, NL, CloseBrace, Other, NL>>,
      <<GroupHeader, NL, Other, NL, ChildrenOpen, Other, NL, Other, NL, Other, NL,
        CloseBrace, Other, NL>> }

Manifests ==
    { b \o f \o r \o g : b \in BuildFileSections, f \in FileRefSections,
                         r \in ResourcesPhases, g \in MainGroups }

Inputs == Texts(MaxLen) \cup Manifests

\* ---------------------------------------------------------------- state
VARIABLES
    versions,   \* what project_path has held: <<initial, after run 1, ...>>
    content,    \* the script's variable content
    pc          \* the script's position

vars == <<versions, content, pc>>

File == versions[Len(versions)]

Init ==
    /\ versions \in {<<x>> : x \in Inputs}
    /\ content = <<>>
    /\ pc = "idle"

\* with open(project_path, 'r') as f: content = f.read()
Read ==
    /\ pc = "idle"
    /\ Len(versions) <= MaxRuns
    /\ content' = File
    /\ pc' = "build_file"
    /\ UNCHANGED versions

Step1 ==
    /\ pc = "build_file"
    /\ content' = AddBuildFile(content)
    /\ pc' = "file_ref"
    /\ UNCHANGED versions

Step2 ==
    /\ pc = "file_ref"
    /\ content' = AddFileRef(content)
    /\ pc' = "resources"
    /\ UNCHANGED versions

Step3 ==
    /\ pc = "resources"
    /\ content' = replace_files(content)
    /\ pc' = "path"
    /\ UNCHANGED versions

StepPath ==
    /\ pc = "path"
    /\ content' = RewritePath(content)
    /\ pc' = "group"
    /\ UNCHANGED versions

Step4 ==
    /\ pc = "group"
    /\ content' = replace_group(content)
    /\ pc' = "write"
    /\ UNCHANGED versions

\* with open(project_path, 'w') as f: f.write(content)
Write ==
    /\ pc = "write"
    /\ versions' = Append(versions, content)
    /\ pc' = "idle"
    /\ UNCHANGED content

Next == Read \/ Step1 \/ Step2 \/ Step3 \/ StepPath \/ Step4 \/ Write

Spec == Init /\ [][Next]_vars

\* ---------------------------------------------------------------- measures
\* How often the token t occurs in s.
Count(s, t) == Cardinality({i \in 1..Len(s) : s[i] = t})

\* The number of line breaks of a text.
RECURSIVE Lines(_)
Lines(s) == IF s = <<>> THEN 0 ELSE Newlines(Head(s)) + Lines(Tail(s))

\* s[i..] starts with the tokens of p.
StartsAt(s, i, p) ==
    /\ i >= 1
    /\ i + Len(p) - 1 <= Len(s)
    /\ \A k \in 1..Len(p) : s[i + k - 1] = p[k]

\* s[..i] ends with the tokens of p.
EndsAt(s, i, p) == StartsAt(s, i - Len(p) + 1, p)

\* The run that has finished last: what it read and what it wrote.
Finished == pc = "idle" /\ Len(versions) >= 2
In == versions[Len(versions) - 1]
Out == versions[Len(versions)]

\* How many more tokens t the last run's output holds than its input.
Added(t) == Count(Out, t) - Count(In, t)

\* ---------------------------------------------------------------- C1
\* How many of the four insertion points the last run used.
InsertionPoints ==
      (IF Added(BuildFileLine) > 0 THEN 1 ELSE 0)
    + (IF Added(FileRefHead) > 0 THEN 1 ELSE 0)
    + (IF Added(ResourcesLine) > 0 THEN 1 ELSE 0)
    + (IF Added(GroupLine) > 0 THEN 1 ELSE 0)

\* C1 as stated: for a manifest containing the build-file begin marker, the
\* run adds the build-file entry exactly once and the line count grows by
\* exactly one per insertion point that fired (build-file, file-reference,
\* build-phase list, group children).
C1_Original ==
    (Finished /\ Contains(In, BeginBuildFile)) =>
        /\ Added(BuildFileLine) = 1
        /\ Lines(Out) = Lines(In) + InsertionPoints

\* Behind step 1: the entry stands after every marker, nothing else changed.
C1_AfterStep1 ==
    (pc = "file_ref" /\ Contains(File, BeginBuildFile)) =>
        /\ Count(content, BuildFileLine)
             = Count(File, BuildFileLine) + Count(File, BeginBuildFile)
        /\ Count(content, BeginBuildFile) = Count(File, BeginBuildFile)
        /\ Len(content) = Len(File) + 3 * Count(File, BeginBuildFile)
        /\ \A i \in 1..Len(content) :
              content[i] = BeginBuildFile =>
                  StartsAt(content, i + 1, <<NL, BuildFileLine, NL>>)

\* Behind the run: two line breaks per section-marker insertion, one per
\* list insertion.
C1_LineCount ==
    (Finished /\ Contains(In, BeginBuildFile)) =>
        /\ Added(BuildFileLine) = Count(In, BeginBuildFile)
        /\ Added(FileRefHead) = Count(In, BeginFileRef)
        /\ Lines(Out) = Lines(In) + 2 * Added(BuildFileLine)
                                  + 2 * Added(FileRefHead)
                                  + Added(ResourcesLine) + Added(GroupLine)

\* C1 amended: for a manifest containing the build-file begin marker, step 1
\* puts a line break and the build-file entry line right after EVERY
\* occurrence of the marker (once per occurrence) and changes nothing else;
\* the marker's own line break stays behind the entry, so each section-marker
\* insertion (build-file, file-reference) adds two line breaks and each list
\* insertion (build phase, group) adds one.
C1_BuildFileEntry == C1_AfterStep1 /\ C1_LineCount

\* A run over a manifest with all four anchors, each firing once: six more
\* line breaks.
C1_Witness ==
    /\ Finished
    /\ Count(In, BeginBuildFile) = 1
    /\ Added(BuildFileLine) = 1
    /\ Added(FileRefHead) = 1
    /\ Added(ResourcesLine) = 1
    /\ Added(GroupLine) = 1
    /\ Lines(Out) = Lines(In) + 6

\* ---------------------------------------------------------------- C2
\* C2 as stated: for a manifest without the build-file begin marker and with
\* the file-reference begin marker, exactly one build-file section is
\* created.
C2_Original ==
    (Finished /\ ~Contains(In, BeginBuildFile) /\ Contains(In, BeginFileRef)) =>
        /\ Count(Out, BeginBuildFile) = 1
        /\ Added(EndBuildFile) = 1
        /\ Added(BuildFileLine) = 1

\* The section step 1 creates, and what then stands around a file-reference
\* begin marker.
NewSection == <<BeginBuildFile, NL, BuildFileLine, NL, EndBuildFile, NL, NL>>

\* Behind step 1: one closed section ahead of every file-reference marker.
C2_AfterStep1 ==
    (pc = "file_ref" /\ ~Contains(File, BeginBuildFile)
                     /\ Contains(File, BeginFileRef)) =>
        /\ Count(content, BeginBuildFile) = Count(File, BeginFileRef)
        /\ Count(content, BuildFileLine)
             = Count(File, BuildFileLine) + Count(File, BeginFileRef)
        /\ Count(content, EndBuildFile)
             = Count(File, EndBuildFile) + Count(File, BeginFileRef)
        /\ Count(content, BeginFileRef) = Count(File, BeginFileRef)
        /\ Len(content) = Len(File) + 7 * Count(File, BeginFileRef)
        /\ \A i \in 1..Len(content) :
              content[i] = BeginFileRef => EndsAt(content, i - 1, NewSection)

\* Behind step 2: the file-reference entry follows each of these markers.
C2_AfterStep2 ==
    (pc = "resources" /\ ~Contains(File, BeginBuildFile)
                      /\ Contains(File, BeginFileRef)) =>
        /\ Count(content, BeginFileRef) = Count(File, BeginFileRef)
        /\ \A i \in 1..Len(content) :
              content[i] = BeginFileRef =>
                  /\ EndsAt(content, i - 1, NewSection)
                  /\ StartsAt(content, i + 1, <<NL>> \o file_ref_entry)

\* C2 amended: for a manifest without the build-file begin marker and with
\* the file-reference begin marker, step 1 creates one build-file section
\* (begin marker, one entry line, end marker, empty line) right before EVERY
\* occurrence of the file-reference begin marker (exactly one section when
\* the marker occurs once), and step 2 puts the file-reference entry line
\* right after each of these markers.
C2_FallbackSection == C2_AfterStep1 /\ C2_AfterStep2

C2_Witness ==
    /\ pc = "resources"
    /\ ~Contains(File, BeginBuildFile)
    /\ Count(File, BeginFileRef) = 1
    /\ Len(File) > 1
    /\ Count(content, BeginBuildFile) = 1
    /\ \E i \in 1..Len(content) :
          /\ content[i] = BeginFileRef
          /\ EndsAt(content, i - 1, NewSection)
          /\ StartsAt(content, i + 1, <<NL>> \o file_ref_entry)

\* ---------------------------------------------------------------- C3
\* C3: what a run writes holds no "path = Assets.xcassets;": the occurrences
\* the manifest had and the ones the file-reference insertion added are all
\* in the form "path = Flow/Assets.xcassets;", and every inserted
\* file-reference line carries that path.
C3_NoOldPath ==
    /\ pc \in {"group", "write"} => ~Contains(content, OldPath)
    /\ Finished =>
          /\ ~Contains(Out, OldPath)
          /\ Count(Out, NewPath)
               = Count(In, NewPath) + Count(In, OldPath) + Count(In, BeginFileRef)
          /\ \A i \in 1..Len(Out) :
                Out[i] = FileRefHead => StartsAt(Out, i + 1, <<NewPath, FileRefTail, NL>>)

\* A run over a manifest that had the old path in a record of its own and
\* got a file-reference entry as well.
C3_Witness ==
    /\ Finished
    /\ Contains(In, OldPath)
    /\ Contains(In, BeginFileRef)
    /\ Count(Out, NewPath) >= 2
    /\ Contains(Out, FileRefHead)

\* ---------------------------------------------------------------- blocks
\* No token strictly between positions i and j holds a "}".
BraceFree(s, i, j) == \A k \in (i+1)..(j-1) : ~HasCloseBrace(s[k])

\* The list openings the header at position i reaches before any "}".
Reached(s, i, header, open) ==
    IF s[i] # header THEN {}
    ELSE {j \in (i+1)..Len(s) : s[j] = open /\ BraceFree(s, i, j)}

\* The positions of the headers that reach a list opening before any "}".
Blocks(s, header, open) ==
    {i \in 1..Len(s) : Reached(s, i, header, open) # {}}

HasBlock(s, header, open) == Blocks(s, header, open) # {}

Least(S) == CHOOSE x \in S : \A y \in S : x <= y
Greatest(S) == CHOOSE x \in S : \A y \in S : y <= x

\* s with the tokens of line put in right after position j.
InsertAfter(s, j, line) == SubSeq(s, 1, j) \o line \o SubSeq(s, j + 1, Len(s))

\* a's tokens appear in b in the same order.
RECURSIVE IsSubseq(_, _)
IsSubseq(a, b) ==
    IF a = <<>> THEN TRUE
    ELSE IF b = <<>> THEN FALSE
    ELSE IF Head(a) = Head(b) THEN IsSubseq(Tail(a), Tail(b))
    ELSE IsSubseq(a, Tail(b))

\* Every token t of s stands right behind an opening that a header reaches.
OnlyInBlocks(s, t, header, open) ==
    \A k \in 1..Len(s) :
        s[k] = t =>
            /\ k > 1
            /\ s[k - 1] = open
            /\ \E i \in 1..(k - 2) : s[i] = header /\ BraceFree(s, i, k - 1)

\* What a list step must do with the text c it receives, giving d: the line
\* goes right after the last opening the first block reaches, the text up
\* to there is untouched, nothing is lost, and with one header in the text
\* that single line is the whole change.
ListStepOk(c, d, header, open, entry) ==
    LET i == Least(Blocks(c, header, open))
        j == Greatest(Reached(c, i, header, open))
        n == Count(d, entry) - Count(c, entry)
    IN /\ StartsAt(d, 1, SubSeq(c, 1, j) \o <<entry, NL>>)
       /\ n >= 1
       /\ Len(d) = Len(c) + 2 * n
       /\ IsSubseq(c, d)
       /\ Count(c, header) = 1 => d = InsertAfter(c, j, <<entry, NL>>)
       /\ Count(c, entry) = 0 => OnlyInBlocks(d, entry, header, open)

\* ---------------------------------------------------------------- C4
\* The build-phase step inserting behind the shortest span.
C4_OriginalStep ==
    (pc = "resources" /\ Count(File, ResourcesHeader) = 1
                      /\ HasBlock(File, ResourcesHeader, FilesOpen)) =>
        /\ HasBlock(content, ResourcesHeader, FilesOpen)
        /\ LET i == Least(Blocks(content, ResourcesHeader, FilesOpen))
               j == Least(Reached(content, i, ResourcesHeader, FilesOpen))
           IN content' = InsertAfter(content, j, <<ResourcesLine, NL>>)

\* C4 as stated: for a manifest whose one resources block reaches
\* "files = (" before any closing brace, the build-phase step inserts
\* exactly one line, right after the first "files = (" the header reaches
\* (the shortest span).
C4_Original == [][C4_OriginalStep]_vars

\* The build-phase step on a text with a block.
C4_Step ==
    (pc = "resources" /\ HasBlock(content, ResourcesHeader, FilesOpen)) =>
        ListStepOk(content, content', ResourcesHeader, FilesOpen, ResourcesLine)

\* C4 amended: for every text the build-phase step receives (the manifest
\* after steps 1 and 2, whose inserted records hold a "}") in which the
\* resources header reaches "files = (" before any closing brace, the step
\* inserts the line right after the LAST "files = (" the header reaches (the
\* longest span: [^}]* is greedy), ahead of the entries of the list, which
\* keep their order; it is exactly one line when the header occurs once, and
\* no list other than one a resources header reaches receives the line.
C4_FilesList == [][C4_Step]_vars

\* After the build-phase step: a block with an entry in its list got the
\* line ahead of that entry.
C4_Witness ==
    /\ pc = "path"
    /\ Count(content, ResourcesHeader) = 1
    /\ \E k \in 1..Len(content) :
          StartsAt(content, k, <<FilesOpen, ResourcesLine, NL, Other>>)

\* ---------------------------------------------------------------- C5
\* The group step inserting one line behind an opening of the block.
C5_OriginalStep ==
    (pc = "group" /\ Count(File, GroupHeader) = 1
                  /\ HasBlock(File, GroupHeader, ChildrenOpen)) =>
        \E j \in 1..Len(content) :
            /\ content[j] = ChildrenOpen
            /\ content' = InsertAfter(content, j, <<GroupLine, NL>>)

\* C5 as stated: for a manifest whose one main-group block reaches
\* "children = (" before any closing brace, the group step inserts exactly
\* one line right after a "children = (" of that block.
C5_Original == [][C5_OriginalStep]_vars

\* The group step's words for the build-phase step's and back.
Swap(t) ==
    CASE t = GroupHeader -> ResourcesHeader
      [] t = ResourcesHeader -> GroupHeader
      [] t = ChildrenOpen -> FilesOpen
      [] t = FilesOpen -> ChildrenOpen
      [] t = GroupLine -> ResourcesLine
      [] t = ResourcesLine -> GroupLine
      [] OTHER -> t

Swapped(s) == [k \in 1..Len(s) |-> Swap(s[k])]

\* The group step on a text with a block, and against the build-phase step.
C5_Step ==
    /\ (pc = "group" /\ HasBlock(content, GroupHeader, ChildrenOpen)) =>
          ListStepOk(content, content', GroupHeader, ChildrenOpen, GroupLine)
    /\ pc = "group" => Swapped(content') = replace_files(Swapped(content))

\* C5 amended: for every text the group step receives (the manifest after
\* the earlier steps, whose inserted records hold a "}") in which the group
\* header reaches "children = (" before any closing brace, the step inserts
\* the line right after the last "children = (" the header reaches, exactly
\* one line when the header occurs once; the block is located the way the
\* build-phase block is (header, no "}", list opening): the step is the
\* build-phase step with the group's header, opening and line.
C5_ChildrenList == [][C5_Step]_vars

C5_Witness ==
    /\ pc = "write"
    /\ Count(content, GroupHeader) = 1
    /\ \E k \in 1..Len(content) :
          StartsAt(content, k, <<ChildrenOpen, GroupLine, NL, Other>>)

\* ---------------------------------------------------------------- C8
\* The tokens whose text holds "};".
HasBraceSemicolon(t) == t \in {Nested, BuildFileLine, FileRefTail}

\* The one resources block of s holds "};" before its own closing brace
\* (the first lone "}" behind the header: nested records are balanced).
NestedInBody(s) ==
    \E i \in 1..Len(s) : \E e \in (i+1)..Len(s) :
        /\ s[i] = ResourcesHeader
        /\ s[e] = CloseBrace
        /\ \A k \in (i+1)..(e-1) : s[k] # CloseBrace
        /\ \E k \in (i+1)..(e-1) : HasBraceSemicolon(s[k])

\* The build-phase step on a block with "};" in its body.
C8_OriginalStep ==
    (pc = "resources" /\ Count(File, ResourcesHeader) = 1 /\ NestedInBody(File)) =>
        Count(content', ResourcesLine) = Count(content, ResourcesLine)

\* C8 as stated: when the body of the resources block holds "};" anywhere
\* before the block's closing brace, the build-phase step inserts nothing.
C8_Original == [][C8_OriginalStep]_vars

\* The build-phase step with a "}" ahead of, or behind, the opening.
C8_Step ==
    /\ (pc = "resources" /\ Contains(content, ResourcesHeader)
                         /\ Contains(content, FilesOpen)
                         /\ ~HasBlock(content, ResourcesHeader, FilesOpen)) =>
          content' = content
    /\ (pc = "resources" /\ NestedInBody(content)
                         /\ HasBlock(content, ResourcesHeader, FilesOpen)) =>
          Count(content', ResourcesLine) > Count(content, ResourcesLine)

\* C8 amended: when a "}" (so also a "};") stands between the resources
\* header and every "files = (" behind it, the build-phase step finds no
\* match and changes nothing; a "};" behind a "files = (" that the header
\* reaches - in the list or later in the body - does not stop the insertion.
C8_NestedBrace == [][C8_Step]_vars

\* After the build-phase step of a first run: a block with a nested record
\* ahead of its "files = (" got no line.
C8_Witness ==
    /\ pc = "path"
    /\ Len(versions) = 1
    /\ Count(content, ResourcesLine) = 0
    /\ \E i \in 1..Len(content) : \E k \in (i+1)..Len(content) :
          \E j \in (k+1)..Len(content) :
              /\ content[i] = ResourcesHeader
              /\ content[k] = Nested
              /\ content[j] = FilesOpen

\* ---------------------------------------------------------------- C6
\* The four lines a run inserts, each known by a token of its own.
FourEntries == {BuildFileLine, FileRefHead, ResourcesLine, GroupLine}

\* Two runs in a row have finished: x, patch(x), patch(patch(x)).
TwoRuns == pc = "idle" /\ Len(versions) >= 3
Before == versions[Len(versions) - 2]
FirstAdded(t) == Count(In, t) - Count(Before, t)

\* C6: the patch is not idempotent.  When a run has inserted the four
\* entries, the next run over its output inserts each of them again, as
\* often as the run before did, and writes a different text; entries that
\* were absent and inserted once are there exactly twice.
C6_NotIdempotent ==
    (TwoRuns /\ \A t \in FourEntries : FirstAdded(t) >= 1) =>
        /\ \A t \in FourEntries : Added(t) = FirstAdded(t)
        /\ Out # In
        /\ \A t \in FourEntries :
              (Count(Before, t) = 0 /\ FirstAdded(t) = 1) => Count(Out, t) = 2

\* Two runs over a manifest with the four anchors: every entry is there
\* twice.
C6_Witness ==
    /\ TwoRuns
    /\ \A t \in FourEntries : Count(Before, t) = 0 /\ Count(In, t) = 1
    /\ \A t \in FourEntries : Count(Out, t) = 2

\* ---------------------------------------------------------------- C7
\* The rewrite of a later run as a no-op.
C7_OriginalStep == (pc = "path" /\ Len(versions) >= 2) => content' = content

\* C7 as stated: in a run over the script's own output the path rewrite
\* changes nothing.
C7_Original == [][C7_OriginalStep]_vars

\* The rewrite of a run over the script's own output.
C7_Step ==
    (pc = "path" /\ Len(versions) >= 2) =>
        /\ Count(content, OldPath) = Count(content, BeginFileRef)
        /\ \A k \in 1..Len(content) :
              content[k] = OldPath =>
                  EndsAt(content, k, <<BeginFileRef, NL, FileRefHead, OldPath>>)
        /\ Len(content') = Len(content)
        /\ \A k \in 1..Len(content) :
              content'[k] = (IF content[k] = OldPath THEN NewPath ELSE content[k])
        /\ (content' = content) <=> ~Contains(content, BeginFileRef)

\* C7 amended: in a run over the script's own output the text the path
\* rewrite receives holds "path = Assets.xcassets;" only in the
\* file-reference entries that this run's step 2 has just inserted, one per
\* file-reference begin marker; the rewrite turns exactly these into the
\* target form and leaves the rest, the paths already in target form
\* included, as it is.  It is a no-op exactly when the text holds no
\* file-reference begin marker.
C7_SecondRewrite == [][C7_Step]_vars

\* The second run behind its rewrite: the entry of the first run and the
\* one just inserted both carry the target path.
C7_Witness ==
    /\ pc = "group"
    /\ Len(versions) = 2
    /\ Count(File, FileRefHead) = 1
    /\ Count(content, FileRefHead) = 2
    /\ Count(content, NewPath) >= 2
    /\ ~Contains(content, OldPath)

\* ---------------------------------------------------------------- C9
NoSectionMarker(s) == ~Contains(s, BeginBuildFile) /\ ~Contains(s, BeginFileRef)

\* A step whose anchor is absent hands on the text it received; every step
\* goes on to the next one and the last one writes the text.
C9_Step ==
    /\ (pc = "build_file" /\ NoSectionMarker(content)) => content' = content
    /\ (pc = "file_ref" /\ ~Contains(content, BeginFileRef)) => content' = content
    /\ (pc = "resources" /\ ~HasBlock(content, ResourcesHeader, FilesOpen)) =>
          content' = content
    /\ (pc = "group" /\ ~HasBlock(content, GroupHeader, ChildrenOpen)) =>
          content' = content
    /\ pc = "build_file" => pc' = "file_ref"
    /\ pc = "file_ref" => pc' = "resources"
    /\ pc = "resources" => pc' = "path"
    /\ pc = "path" => pc' = "group"
    /\ pc = "group" => pc' = "write"
    /\ pc = "write" => (pc' = "idle" /\ versions' = Append(versions, content))

\* The steps whose anchor is present are applied whatever the others find.
C9_Run ==
    Finished =>
        /\ NoSectionMarker(In) =>
              /\ Added(BuildFileLine) = 0
              /\ Added(FileRefHead) = 0
              /\ Added(BeginBuildFile) = 0
              /\ HasBlock(In, ResourcesHeader, FilesOpen) => Added(ResourcesLine) >= 1
              /\ HasBlock(In, GroupHeader, ChildrenOpen) => Added(GroupLine) >= 1
              /\ Count(Out, NewPath) = Count(In, NewPath) + Count(In, OldPath)
        /\ ~Contains(In, ResourcesHeader) =>
              /\ Added(ResourcesLine) = 0
              /\ Added(FileRefHead) = Count(In, BeginFileRef)
        /\ ~Contains(In, GroupHeader) =>
              /\ Added(GroupLine) = 0
              /\ Added(FileRefHead) = Count(In, BeginFileRef)
        /\ ( /\ NoSectionMarker(In)
             /\ ~HasBlock(In, ResourcesHeader, FilesOpen)
             /\ ~HasBlock(In, GroupHeader, ChildrenOpen)
             /\ ~Contains(In, OldPath) ) => Out = In

\* C9: a missing anchor is a silent no-op for its own step only: the step
\* leaves the text as it received it, the run goes on through every other
\* step and writes the result; without both section markers no build-file
\* and no file-reference record is inserted, and without any anchor and any
\* "path = Assets.xcassets;" the output is the input.
C9_SilentNoOp == [][C9_Step]_vars /\ []C9_Run

\* A run over a manifest without section markers and without a main group
\* that still got its build-phase line and its path rewritten.
C9_Witness ==
    /\ Finished
    /\ NoSectionMarker(In)
    /\ ~Contains(In, GroupHeader)
    /\ Added(BuildFileLine) = 0
    /\ Added(ResourcesLine) = 1
    /\ Out # In

\* ---------------------------------------------------------------- C10
\* The text of a path field in pieces: the rewrite puts "Flow/" between
\* "path = " and "Assets.xcassets;".
Pieces(t) ==
    CASE t = OldPath -> <<"path = ", "Assets.xcassets;">>
      [] t = NewPath -> <<"path = ", "Flow/", "Assets.xcassets;">>
      [] OTHER -> <<t>>

RECURSIVE Text(_)
Text(s) == IF s = <<>> THEN <<>> ELSE Pieces(Head(s)) \o Text(Tail(s))

\* The pieces the script inserts somewhere.
Inserted ==
    {NL, BeginBuildFile, EndBuildFile, BuildFileLine, FileRefHead, "path = ",
     "Assets.xcassets;", FileRefTail, ResourcesLine, GroupLine, "Flow/"}

\* The pieces a text can be made of.
AllPieces == Alphabet \cup Inserted

\* b is a with inserted material put in: a's pieces are in b in their
\* order, and what b has more is inserted material only.
OnlyInsertions(a, b) ==
    LET ta == Text(a)
        tb == Text(b)
    IN /\ IsSubseq(ta, tb)
       /\ \A t \in AllPieces \ Inserted : Count(tb, t) = Count(ta, t)
       /\ \A t \in Inserted : Count(tb, t) >= Count(ta, t)

\* C10: the patch only inserts.  At every step the text read from the file
\* is a subsequence of the text so far, and what a run writes is what it
\* read plus entry lines, section markers, line breaks and "Flow/" prefixes.
C10_OnlyInserts ==
    /\ pc # "idle" => OnlyInsertions(File, content)
    /\ Finished => OnlyInsertions(In, Out)

\* A run that made all five edits.
C10_Witness ==
    /\ Finished
    /\ \A t \in FourEntries : Added(t) >= 1
    /\ Contains(In, OldPath)
    /\ Len(Out) > Len(In)
    /\ Count(Text(Out), "Flow/") >= 2

====
